---- MODULE Spec2Model ----
(***************************************************************************)
(* NinjaOne MCP server: the API client's endpoint resolution, OAuth token  *)
(* cache and authenticated request executor.                               *)
(*                                                                         *)
(* Three client implementations share the design and are modelled side by  *)
(* side, selected by the variable impl:                                    *)
(*   "ts"     src/src/ninja-api.ts, first class (lines 1-506)              *)
(*   "ts2"    src/src/ninja-api.ts, second class (lines 507-999)           *)
(*   "server" src/server/ninja-api.js                                      *)
(*                                                                         *)
(* The runtime is single threaded with cooperative suspension: every       *)
(* action below is the code that runs between two awaits.                  *)
(***************************************************************************)
EXTENDS Integers, Sequences, FiniteSets, TLC

(* ---------------------------------------------------------------------- *)
(* Bounds of the exploration                                               *)
(* ---------------------------------------------------------------------- *)
MaxExchanges == 3
MaxTicks == 1
MaxOverrides == 1

(* ---------------------------------------------------------------------- *)
(* URLs.  A URL is a record of its scheme (the text before "://", empty    *)
(* when the text has none) and the rest.  NoUrl stands for null, undefined *)
(* and the empty string, which the code treats alike (all are falsy).      *)
(* ---------------------------------------------------------------------- *)
Url(s, h) == [scheme |-> s, host |-> h]
NoUrl == Url("", "")

APP == Url("https", "app.ninjarmm.com")
US2 == Url("https", "us2.ninjarmm.com")
EU == Url("https", "eu.ninjarmm.com")
CA == Url("https", "ca.ninjarmm.com")
OC == Url("https", "oc.ninjarmm.com")
XT == Url("https", "x.test")
YT == Url("https", "y.test")
ZT == Url("https", "z.test")

RegionKeys == {"us", "us2", "eu", "ca", "oc"}

REGION_MAP ==
  [k \in RegionKeys |->
     CASE k = "us" -> APP
       [] k = "us2" -> US2
       [] k = "eu" -> EU
       [] k = "ca" -> CA
       [] k = "oc" -> OC]

DEFAULT_CANDIDATES == <<APP, US2, EU, CA, OC>>

(* REGION_MAP is an object literal, so REGION_MAP[key] also finds what the  *)
(* object inherits from Object.prototype: under "constructor" the function *)
(* Object, a truthy value whose text is the host below. Every other key    *)
(* the model feeds in is an own key or yields undefined (NoUrl).           *)
ObjectFn == Url("", "function Object() { [native code] }")

RegionLookup(key) ==
  IF key \in RegionKeys THEN REGION_MAP[key]
  ELSE IF key = "constructor" THEN ObjectFn
  ELSE NoUrl

(* fetch rejects a URL it cannot parse before anything is sent *)
Fetchable(u) == u.host # ObjectFn.host

(* String.prototype.toLowerCase on the region texts the model feeds in:     *)
(* "", "eu", "EU", "Ca", "mars", "constructor"                             *)
toLowerCase(s) ==
  CASE s = "EU" -> "eu"
    [] s = "Ca" -> "ca"
    [] OTHER -> s

(* /^https?:\/\//i.test(url) *)
HasHttpScheme(u) == u.scheme \in {"http", "https", "HTTP", "HTTPS", "Https"}

normalizeBaseUrl(u) ==
  IF ~HasHttpScheme(u) THEN Url("https", u.host) ELSE u

(* ---------------------------------------------------------------------- *)
(* NINJA_BASE_URLS: the text between two commas is a segment; pad tells    *)
(* whether it carries surrounding blanks, and a segment with no scheme and *)
(* no host is empty.                                                       *)
(* ---------------------------------------------------------------------- *)
Seg(p, s, h) == [pad |-> p, scheme |-> s, host |-> h]

trim(seg) == [seg EXCEPT !.pad = FALSE]

Truthy(seg) == ~(seg.scheme = "" /\ seg.host = "" /\ ~seg.pad)

RECURSIVE FilterSegs(_)
FilterSegs(segs) ==
  IF segs = <<>> THEN <<>>
  ELSE IF Truthy(trim(Head(segs)))
       THEN <<trim(Head(segs))>> \o FilterSegs(Tail(segs))
       ELSE FilterSegs(Tail(segs))

(* The empty entries kept, and the list built back to front *)
getCandidateBaseUrlsKeepEmpty(envUrls) ==
  LET kept == [i \in 1..Len(envUrls) |-> trim(envUrls[i])]
      fromEnv == [i \in 1..Len(kept) |->
                    normalizeBaseUrl(Url(kept[i].scheme, kept[i].host))]
  IN IF Len(fromEnv) > 0 THEN fromEnv ELSE DEFAULT_CANDIDATES


getCandidateBaseUrlsReversed(envUrls) ==
  LET kept == FilterSegs(envUrls)
      fromEnv == [i \in 1..Len(kept) |->
                    normalizeBaseUrl(Url(kept[Len(kept) + 1 - i].scheme,
                                         kept[Len(kept) + 1 - i].host))]
  IN IF Len(fromEnv) > 0 THEN fromEnv ELSE DEFAULT_CANDIDATES

getCandidateBaseUrls(envUrls) ==
  LET kept == FilterSegs(envUrls)
      fromEnv == [i \in 1..Len(kept) |->
                    normalizeBaseUrl(Url(kept[i].scheme, kept[i].host))]
  IN IF Len(fromEnv) > 0 THEN fromEnv ELSE DEFAULT_CANDIDATES

(* ---------------------------------------------------------------------- *)
(* Values that travel between the client and the platform                  *)
(* ---------------------------------------------------------------------- *)

(* An access token is named by the endpoint that issued it and by the      *)
(* ordinal of its exchange; NoToken is null / undefined.                   *)
Tok(u, n) == [iss |-> u, id |-> n]
NoToken == Tok(NoUrl, 0)

(* The JSON body of a 2xx token response *)
Payload(t, e) == [access_token |-> t, expires_in |-> e]
ExpiresIn == {300, 3600}
Payloads == {Payload(t, e) : t \in BOOLEAN, e \in ExpiresIn}

(* A token response: status 0 is a network-level exception of fetch *)
TokenResp(s, p) == [status |-> s, payload |-> p]
TokenResponses ==
  {TokenResp(401, Payload(FALSE, 0)), TokenResp(0, Payload(FALSE, 0))}
    \cup {TokenResp(200, p) : p \in Payloads}

ResponseOk(status) == status >= 200 /\ status <= 299

(* Query parameters; the value "" stands for undefined / null *)
Param(k, v) == [k |-> k, v |-> v]

RECURSIVE buildQuery(_)
buildQuery(params) ==
  IF params = <<>> THEN <<>>
  ELSE IF Head(params).v # ""
       THEN <<Head(params)>> \o buildQuery(Tail(params))
       ELSE buildQuery(Tail(params))

Req(m, e, q) == [method |-> m, endpoint |-> e, query |-> q]
NoReq == Req("", "", <<>>)

Target(b, e, q) == [base |-> b, endpoint |-> e, query |-> q]
NoTarget == Target(NoUrl, "", <<>>)

(* Parsed JSON values, and the synthetic success object *)
NoValue == [none |-> TRUE]
Success == [success |-> TRUE]
DeviceJson == "{\"id\":7}"
Blank == "  "

StringTrim(text) == IF text = Blank THEN "" ELSE text

(* JSON.parse: ok tells whether the text parses *)
JSONparse(text) ==
  IF text = DeviceJson THEN [ok |-> TRUE, value |-> [id |-> 7]]
  ELSE [ok |-> FALSE, value |-> NoValue]

DataResp(s, b) == [status |-> s, body |-> b]
DataResponses ==
  {DataResp(200, DeviceJson), DataResp(200, ""), DataResp(200, Blank),
   DataResp(200, "OK"), DataResp(204, ""), DataResp(500, "boom")}

(* What a call hands back to its caller: kind "ok" is a return, every      *)
(* other kind is a thrown error with the parts of its message.             *)
Res(k, t, tr, s, b, v) ==
  [kind |-> k, token |-> t, tried |-> tr, status |-> s, body |-> b, value |-> v]
NoResult == Res("none", NoToken, <<>>, 0, "", NoValue)

(* ---------------------------------------------------------------------- *)
(* State                                                                   *)
(* ---------------------------------------------------------------------- *)
VARIABLES
  impl,             \* which client implementation this run is about
  env,              \* process.env as the code reads it
  isConfigured,     \* this.isConfigured
  baseUrl,          \* this.baseUrl
  baseUrlExplicit,  \* this.baseUrlExplicit
  accessToken,      \* this.accessToken
  tokenExpiry,      \* this.tokenExpiry, 0 for null
  now,              \* Date.now(), milliseconds
  ticks,            \* how often the clock has advanced
  calls,            \* the makeRequest calls in flight, oldest first
  exchanges,        \* token exchanges issued so far
  lastDone,         \* the call the step just taken has finished, if any
  overrides,        \* setBaseUrl / setRegion calls so far
  lastOverride      \* the latest setBaseUrl / setRegion: whether it
                    \* succeeded, the key it rejected, and whether it
                    \* found a valid token in the cache

vars ==
  <<impl, env, isConfigured, baseUrl, baseUrlExplicit, accessToken,
    tokenExpiry, now, ticks, calls, exchanges, lastDone, overrides,
    lastOverride>>

Slots == {1, 2}

SafetyMarginMs == 300000

(* One call of makeRequest: where it stands (pc), its request, and the     *)
(* locals of getAccessToken and makeRequest it carries across its awaits:  *)
(* tried lists the base URLs whose token endpoint this call has asked, xid *)
(* is the ordinal of the exchange it is waiting for.                       *)
IdleCall ==
  [pc |-> "idle", req |-> NoReq, auto |-> FALSE, tried |-> <<>>, xid |-> 0,
   token |-> NoToken, target |-> NoTarget]

(* A finished call: the response to its data request, if it got that far,  *)
(* and what it handed back.                                                *)
NoResp == DataResp(0, "")

Done(call, resp, res) ==
  [pc |-> "done", req |-> call.req, auto |-> call.auto, tried |-> call.tried,
   token |-> call.token, target |-> call.target, resp |-> resp,
   result |-> res]

NoDone == [Done(IdleCall, NoResp, NoResult) EXCEPT !.pc = "none"]

(* The calls left in flight when the call in slot c ends *)
Remove(cs, c) ==
  [d \in Slots |->
     IF d < c THEN cs[d]
     ELSE IF d + 1 \in Slots THEN cs[d + 1]
     ELSE IdleCall]

(* ---------------------------------------------------------------------- *)
(* Construction                                                            *)
(* ---------------------------------------------------------------------- *)
RegionRecognized(region) ==
  toLowerCase(region) # "" /\ RegionLookup(toLowerCase(region)) # NoUrl

ConstructBaseUrl(envBase, envRegion) ==
  IF envBase # NoUrl THEN normalizeBaseUrl(envBase)
  ELSE IF RegionRecognized(envRegion) THEN RegionLookup(toLowerCase(envRegion))
  ELSE NoUrl

(* src/server/ninja-api.js resets the flag after the resolution (line 31) *)
ConstructExplicit(i, envBase, envRegion) ==
  IF i = "server" THEN FALSE
  ELSE envBase # NoUrl \/ RegionRecognized(envRegion)

(* Either credential taken to be enough *)
ConstructConfiguredEither(clientId, clientSecret) ==
  clientId # "" \/ clientSecret # ""

ConstructConfigured(clientId, clientSecret) ==
  clientId # "" /\ clientSecret # ""

(* The environments the runs start from: NINJA_BASE_URL, NINJA_REGION,      *)
(* NINJA_BASE_URLS, NINJA_CLIENT_ID, NINJA_CLIENT_SECRET.                  *)
Env(b, r, u, id, secret) ==
  [base |-> b, region |-> r, urls |-> u, clientId |-> id,
   clientSecret |-> secret]

UrlsXY == <<Seg(TRUE, "", "x.test"), Seg(FALSE, "https", "y.test")>>
UrlsXYZ ==
  <<Seg(FALSE, "https", "x.test"), Seg(TRUE, "", ""),
    Seg(FALSE, "", "y.test"), Seg(FALSE, "https", "z.test")>>

EnvAuto == Env(NoUrl, "", <<>>, "id", "secret")
EnvAutoXY == Env(NoUrl, "", UrlsXY, "id", "secret")
EnvAutoXYZ == Env(NoUrl, "", UrlsXYZ, "id", "secret")
EnvAutoBlank == Env(NoUrl, "", <<Seg(TRUE, "", "")>>, "id", "secret")
EnvMars == Env(NoUrl, "mars", UrlsXY, "id", "secret")
EnvRegionInherited == Env(NoUrl, "constructor", <<>>, "id", "secret")
EnvRegionEU == Env(NoUrl, "EU", <<>>, "id", "secret")
EnvBaseZ == Env(Url("", "z.test"), "", UrlsXY, "id", "secret")
EnvBaseYRegionEU == Env(YT, "EU", <<>>, "id", "secret")
EnvNoSecret == Env(NoUrl, "", UrlsXY, "id", "")
EnvNoId == Env(NoUrl, "EU", <<>>, "", "secret")
EnvNoCredentials == Env(YT, "", <<>>, "", "")

Configurations ==
  ({"ts"} \X {EnvAuto, EnvAutoXY, EnvAutoXYZ, EnvAutoBlank, EnvMars,
              EnvRegionEU, EnvRegionInherited, EnvBaseZ, EnvBaseYRegionEU, EnvNoSecret, EnvNoId,
              EnvNoCredentials})
    \cup ({"ts2"} \X {EnvAutoXY, EnvRegionEU, EnvNoSecret})
    \cup ({"server"} \X {EnvAutoXY, EnvRegionEU, EnvBaseZ, EnvNoId})

Init ==
  /\ \E cfg \in Configurations : impl = cfg[1] /\ env = cfg[2]
  /\ baseUrl = ConstructBaseUrl(env.base, env.region)
  /\ baseUrlExplicit = ConstructExplicit(impl, env.base, env.region)
  /\ isConfigured = ConstructConfigured(env.clientId, env.clientSecret)
  /\ accessToken = NoToken
  /\ tokenExpiry = 0
  /\ now = 0
  /\ ticks = 0
  /\ calls = [c \in Slots |-> IdleCall]
  /\ exchanges = 0
  /\ lastDone = NoDone
  /\ overrides = 0
  /\ lastOverride = [ok |-> TRUE, arg |-> "", cached |-> FALSE]

(* ---------------------------------------------------------------------- *)
(* getAccessToken                                                          *)
(* ---------------------------------------------------------------------- *)
Last(q) == q[Len(q)]

(* The validity test without its safety margin *)
TokenValidNoMargin(tok, exp, t) ==
  tok # NoToken /\ exp # 0 /\ t < exp

(* Three slips of the validity test: the comparison turned round, the      *)
(* boundary let in, and the expiry taken for seconds.                      *)
TokenValidInverted(tok, exp, t) ==
  tok # NoToken /\ exp # 0 /\ t > exp - SafetyMarginMs

TokenValidInclusive(tok, exp, t) ==
  tok # NoToken /\ exp # 0 /\ t <= exp - SafetyMarginMs

TokenValidSeconds(tok, exp, t) ==
  tok # NoToken /\ exp # 0 /\ t < (exp \div 1000) - SafetyMarginMs

(* this.accessToken && this.tokenExpiry && Date.now() < tokenExpiry - 300000 *)
TokenValid(tok, exp, t) ==
  tok # NoToken /\ exp # 0 /\ t < exp - SafetyMarginMs

(* The flag read without its negation, and the test left out *)
NeedsDetectFlagInverted(b, x) == b = NoUrl \/ x

NeedsDetectAlways(b, x) == TRUE

(* !this.baseUrl || !this.baseUrlExplicit *)
NeedsDetect(b, x) == b = NoUrl \/ ~x

(* The return placed before the assignment of the new token *)
ReturnedStale(call, tok) ==
  [call EXCEPT !.pc = "haveToken", !.auto = FALSE, !.xid = 0]

(* getAccessToken returns tok: makeRequest goes on after its await *)
Returned(call, tok) ==
  [call EXCEPT !.pc = "haveToken", !.auto = FALSE, !.xid = 0, !.token = tok]

(* What getAccessToken throws when every candidate has failed, and when    *)
(* the exchange with the explicit endpoint has failed (requestToken's      *)
(* error, or fetch's own when status is 0).                                *)
DiscoveryErrorLastOnly(tried) ==
  Res("discovery", NoToken, <<Last(tried)>>, 0, "", NoValue)

DiscoveryError(tried) == Res("discovery", NoToken, tried, 0, "", NoValue)
AuthError(tried, status) == Res("auth", NoToken, tried, status, "", NoValue)
ConfigurationError == Res("config", NoToken, <<>>, 0, "", NoValue)
NetworkError == Res("network", NoToken, <<>>, 0, "", NoValue)

(* makeRequest up to its first suspension: the synchronous head of         *)
(* getAccessToken, up to its first await or its return.                    *)
Begin(c, req) ==
  LET fresh == [IdleCall EXCEPT !.req = req]
      candidates == getCandidateBaseUrls(env.urls)
      detect == NeedsDetect(baseUrl, baseUrlExplicit)
      first == IF detect THEN candidates[1] ELSE baseUrl
  IN /\ calls[c].pc = "idle"
     /\ \A d \in Slots : d < c => calls[d].pc # "idle"
     /\ IF ~isConfigured
        THEN /\ lastDone' = Done(fresh, NoResp, ConfigurationError)
             /\ UNCHANGED <<calls, exchanges>>
        ELSE IF TokenValid(accessToken, tokenExpiry, now)
        THEN /\ calls' = [calls EXCEPT ![c] = Returned(fresh, accessToken)]
             /\ lastDone' = NoDone
             /\ UNCHANGED exchanges
        ELSE /\ exchanges < MaxExchanges
             /\ exchanges' = exchanges + 1
             /\ calls' = [calls EXCEPT ![c] =
                   [fresh EXCEPT !.pc = "tokenWait", !.auto = detect,
                                 !.tried = <<first>>,
                                 !.xid = exchanges + 1]]
             /\ lastDone' = NoDone
     /\ UNCHANGED <<impl, env, isConfigured, baseUrl, baseUrlExplicit,
                    accessToken, tokenExpiry, now, ticks, overrides,
                    lastOverride>>

(* requestToken's fetch settles and getAccessToken runs on to its next     *)
(* await or to its end.                                                    *)
TokenResponse(c, r) ==
  LET call == calls[c]
      cands == getCandidateBaseUrls(env.urls)
      cur == Last(call.tried)
      tok == IF r.payload.access_token THEN Tok(cur, call.xid) ELSE NoToken
  IN /\ call.pc = "tokenWait"
     /\ (Fetchable(cur) \/ r.status = 0)
     /\ IF ResponseOk(r.status)
        THEN /\ baseUrl' = IF call.auto THEN cur ELSE baseUrl
             /\ baseUrlExplicit' = IF call.auto THEN TRUE ELSE baseUrlExplicit
             /\ accessToken' = tok
             /\ tokenExpiry' = now + (r.payload.expires_in * 1000)
             /\ calls' = [calls EXCEPT ![c] = Returned(call, tok)]
             /\ lastDone' = NoDone
             /\ UNCHANGED exchanges
        ELSE /\ UNCHANGED <<baseUrl, baseUrlExplicit, accessToken, tokenExpiry>>
             /\ IF call.auto /\ Len(call.tried) < Len(cands)
                THEN LET next == cands[Len(call.tried) + 1]
                     IN /\ exchanges < MaxExchanges
                        /\ exchanges' = exchanges + 1
                        /\ calls' = [calls EXCEPT ![c] =
                             [call EXCEPT !.tried = Append(call.tried, next),
                                          !.xid = exchanges + 1]]
                        /\ lastDone' = NoDone
                ELSE /\ calls' = Remove(calls, c)
                     /\ UNCHANGED exchanges
                     /\ lastDone' =
                          Done(call, NoResp,
                               IF call.auto THEN DiscoveryError(call.tried)
                               ELSE AuthError(call.tried, r.status))
     /\ UNCHANGED <<impl, env, isConfigured, now, ticks, overrides,
                    lastOverride>>

(* ---------------------------------------------------------------------- *)
(* makeRequest                                                             *)
(* ---------------------------------------------------------------------- *)

(* The device list request as the get_devices tool issues it with no       *)
(* arguments, and a DELETE of a contact.                                   *)
getDevices(i) ==
  IF i = "server"
  THEN Req("GET", "/v2/devices",
           buildQuery(<<Param("pageSize", "50"), Param("after", "0"),
                        Param("df", "")>>))
  ELSE Req("GET", "/v2/devices",
           buildQuery(<<Param("df", ""), Param("pageSize", "50"),
                        Param("after", "")>>))

deleteContact == Req("DELETE", "/v2/contact/7", <<>>)

(* After `await this.getAccessToken()`: read the base URL, send the fetch *)
SendData(c) ==
  LET call == calls[c]
      base == IF baseUrl # NoUrl THEN baseUrl ELSE DEFAULT_CANDIDATES[1]
      sent == [call EXCEPT !.target = Target(base, call.req.endpoint,
                                              call.req.query)]
  IN /\ call.pc = "haveToken"
     /\ IF Fetchable(base)
        THEN /\ calls' = [calls EXCEPT ![c] = [sent EXCEPT !.pc = "dataWait"]]
             /\ lastDone' = NoDone
        ELSE /\ calls' = Remove(calls, c)
             /\ lastDone' = Done(sent, NoResp, NetworkError)
     /\ UNCHANGED <<impl, env, isConfigured, baseUrl, baseUrlExplicit,
                    accessToken, tokenExpiry, now, ticks, exchanges,
                    overrides, lastOverride>>

(* The first class of src/src/ninja-api.ts (lines 149-167) *)
NormalizeText(method, r) ==
  IF ~ResponseOk(r.status)
  THEN Res("api", NoToken, <<>>, r.status, r.body, NoValue)
  ELSE IF method = "DELETE" /\ r.status = 204
  THEN Res("ok", NoToken, <<>>, r.status, "", Success)
  ELSE IF r.body = "" \/ StringTrim(r.body) = ""
  THEN Res("ok", NoToken, <<>>, r.status, "", Success)
  ELSE IF JSONparse(r.body).ok
  THEN Res("ok", NoToken, <<>>, r.status, "", JSONparse(r.body).value)
  ELSE Res("ok", NoToken, <<>>, r.status, "", Success)

(* The second class and src/server/ninja-api.js: `await response.json()` *)
NormalizeJson(r) ==
  IF ~ResponseOk(r.status)
  THEN Res("api", NoToken, <<>>, r.status, "", NoValue)
  ELSE IF JSONparse(r.body).ok
  THEN Res("ok", NoToken, <<>>, r.status, "", JSONparse(r.body).value)
  ELSE Res("parse", NoToken, <<>>, r.status, "", NoValue)

Normalize(i, method, r) ==
  IF i = "ts" THEN NormalizeText(method, r) ELSE NormalizeJson(r)

(* A refused data request taken to invalidate the token *)
DataResponseClearsToken(c, r) ==
  LET call == calls[c]
  IN /\ call.pc = "dataWait"
     /\ calls' = Remove(calls, c)
     /\ lastDone' = Done(call, r, Normalize(impl, call.req.method, r))
     /\ accessToken' = IF ResponseOk(r.status) THEN accessToken ELSE NoToken
     /\ tokenExpiry' = IF ResponseOk(r.status) THEN tokenExpiry ELSE 0
     /\ UNCHANGED <<impl, env, isConfigured, baseUrl, baseUrlExplicit, now,
                    ticks, exchanges, overrides, lastOverride>>

(* The data fetch settles and makeRequest runs to its end *)
DataResponse(c, r) ==
  LET call == calls[c]
  IN /\ call.pc = "dataWait"
     /\ calls' = Remove(calls, c)
     /\ lastDone' = Done(call, r, Normalize(impl, call.req.method, r))
     /\ UNCHANGED <<impl, env, isConfigured, baseUrl, baseUrlExplicit,
                    accessToken, tokenExpiry, now, ticks, exchanges,
                    overrides, lastOverride>>

(* ---------------------------------------------------------------------- *)
(* Region utilities                                                        *)
(* ---------------------------------------------------------------------- *)
(* An override that leaves the client without a base URL *)
SetBaseUrlUnresolves(u) ==
  /\ overrides < MaxOverrides
  /\ overrides' = overrides + 1
  /\ baseUrl' = NoUrl
  /\ baseUrlExplicit' = TRUE
  /\ accessToken' = NoToken
  /\ tokenExpiry' = 0
  /\ lastOverride' =
       [ok |-> TRUE, arg |-> "",
        cached |-> TokenValid(accessToken, tokenExpiry, now)]
  /\ lastDone' = NoDone
  /\ UNCHANGED <<impl, env, isConfigured, now, ticks, calls, exchanges>>

SetBaseUrl(u) ==
  /\ overrides < MaxOverrides
  /\ overrides' = overrides + 1
  /\ baseUrl' = normalizeBaseUrl(u)
  /\ baseUrlExplicit' = TRUE
  /\ accessToken' = NoToken
  /\ tokenExpiry' = 0
  /\ lastOverride' =
       [ok |-> TRUE, arg |-> "",
        cached |-> TokenValid(accessToken, tokenExpiry, now)]
  /\ lastDone' = NoDone
  /\ UNCHANGED <<impl, env, isConfigured, now, ticks, calls, exchanges>>

SetRegion(region) ==
  LET key == toLowerCase(region)
      mapped == RegionLookup(key)
  IN /\ overrides < MaxOverrides
     /\ overrides' = overrides + 1
     /\ IF mapped = NoUrl
        THEN /\ lastOverride' = [ok |-> FALSE, arg |-> region, cached |-> FALSE]
             /\ UNCHANGED <<baseUrl, baseUrlExplicit, accessToken, tokenExpiry>>
        ELSE /\ baseUrl' = normalizeBaseUrl(mapped)
             /\ baseUrlExplicit' = TRUE
             /\ accessToken' = NoToken
             /\ tokenExpiry' = 0
             /\ lastOverride' =
                  [ok |-> TRUE, arg |-> "",
                   cached |-> TokenValid(accessToken, tokenExpiry, now)]
     /\ lastDone' = NoDone
     /\ UNCHANGED <<impl, env, isConfigured, now, ticks, calls, exchanges>>

(* ---------------------------------------------------------------------- *)
(* The clock                                                               *)
(* ---------------------------------------------------------------------- *)
TickMs == {3300000}

Tick(d) ==
  /\ ticks < MaxTicks
  /\ ticks' = ticks + 1
  /\ now' = now + d
  /\ lastDone' = NoDone
  /\ UNCHANGED <<impl, env, isConfigured, baseUrl, baseUrlExplicit,
                 accessToken, tokenExpiry, calls, exchanges, overrides,
                 lastOverride>>

(* ---------------------------------------------------------------------- *)
(* Specifications                                                          *)
(* ---------------------------------------------------------------------- *)

(* Spec: up to two calls in flight at once, device list requests, token    *)
(* responses that carry an access_token.                                   *)
GoodTokenResponses ==
  {r \in TokenResponses : r.status = 200 => r.payload.access_token}
OverrideUrls == {Url("", "eu.ninjarmm.com")}
OverrideRegions == {"EU", "mars"}
OverrideRegionsSeq == {"EU", "mars", "", "constructor"}

Next ==
  \/ \E c \in Slots : Begin(c, getDevices(impl))
  \/ \E c \in Slots : \E r \in GoodTokenResponses : TokenResponse(c, r)
  \/ \E c \in Slots : SendData(c)
  \/ \E c \in Slots : \E r \in DataResponses : DataResponse(c, r)
  \/ \E u \in OverrideUrls : SetBaseUrl(u)
  \/ \E k \in OverrideRegions : SetRegion(k)
  \/ \E d \in TickMs : Tick(d)

Spec == Init /\ [][Next]_vars

(* SpecSeq: every request and every response, with the callers awaiting    *)
(* each call that may reach the token endpoint: a call begins while        *)
(* another is in flight only when the cache serves it.                     *)
BeginOrdered(c, req) ==
  /\ \/ \A d \in Slots : calls[d].pc = "idle"
     \/ TokenValid(accessToken, tokenExpiry, now)
  /\ Begin(c, req)

NextSeq ==
  \/ \E c \in Slots : \E q \in {getDevices(impl), deleteContact} :
        BeginOrdered(c, q)
  \/ \E c \in Slots : \E r \in TokenResponses : TokenResponse(c, r)
  \/ \E c \in Slots : SendData(c)
  \/ \E c \in Slots : \E r \in DataResponses : DataResponse(c, r)
  \/ \E u \in OverrideUrls : SetBaseUrl(u)
  \/ \E k \in OverrideRegionsSeq : SetRegion(k)
  \/ \E d \in TickMs : Tick(d)

SpecSeq == Init /\ [][NextSeq]_vars

(* ---------------------------------------------------------------------- *)
(* The refresh-token client (src/unnamed/part_003)                         *)
(* ---------------------------------------------------------------------- *)
MaxLegacyExchanges == 5
maxRetries == 2

(* this.candidateUrls, as the constructor lists them *)
candidateUrls ==
  <<Url("https", "app.ninjarmm.com"), Url("https", "us2.ninjarmm.com"),
    Url("https", "eu.ninjarmm.com"), Url("https", "ca.ninjarmm.com"),
    Url("https", "oc.ninjarmm.com")>>

(* NINJAONE_BASE_URL: a URL and whether it ends with a slash *)
LegacyBase(s, h, slash) == [scheme |-> s, host |-> h, slash |-> slash]
LegacyBases ==
  {LegacyBase("", "", FALSE), LegacyBase("https", "z.test", FALSE),
   LegacyBase("https", "eu.ninjarmm.com", TRUE)}

(* process.env.NINJAONE_BASE_URL?.replace(/\/$/, '') *)
LegacyConstructBaseUrl(b) == Url(b.scheme, b.host)

(* A call of apiCall: the call record with the loop counter and lastError *)
LegacyIdle ==
  [pc |-> "idle", req |-> NoReq, auto |-> FALSE, tried |-> <<>>, xid |-> 0,
   token |-> NoToken, target |-> NoTarget, attempt |-> 0,
   lastError |-> NoResult]

LegacyRemove(cs, c) ==
  [d \in Slots |->
     IF d < c THEN cs[d]
     ELSE IF d + 1 \in Slots THEN cs[d + 1]
     ELSE LegacyIdle]

InitLegacy ==
  /\ impl = "legacy"
  /\ \E b \in LegacyBases :
       /\ env = Env(Url(b.scheme, b.host), "", <<>>, "id", "secret")
       /\ baseUrl = LegacyConstructBaseUrl(b)
  /\ baseUrlExplicit = FALSE
  /\ isConfigured = TRUE
  /\ accessToken = NoToken
  /\ tokenExpiry = 0
  /\ now = 0
  /\ ticks = 0
  /\ calls = [c \in Slots |-> LegacyIdle]
  /\ exchanges = 0
  /\ lastDone = NoDone
  /\ overrides = 0
  /\ lastOverride = [ok |-> TRUE, arg |-> "", cached |-> FALSE]

(* The texts of the failures fed in, and message.includes('timeout') ||    *)
(* message.includes('network') on a message that ends with such a text.    *)
(* The fixed parts of the messages and the status texts hold neither word. *)
TimeoutText == "network timeout at: https://z.test"
GatewayTimeoutText == "upstream request timeout"
includesTimeoutOrNetwork(text) == text \in {TimeoutText, GatewayTimeoutText}

LegacyTokenResp(s, p, t) == [status |-> s, payload |-> p, text |-> t]
LegacyTokenResponses ==
  {LegacyTokenResp(200, Payload(TRUE, e), "") : e \in ExpiresIn}
    \cup {LegacyTokenResp(401, Payload(FALSE, 0), "invalid_client"),
          LegacyTokenResp(0, Payload(FALSE, 0), TimeoutText)}

LegacyDataResponses ==
  {DataResp(200, DeviceJson), DataResp(401, "invalid_client"),
   DataResp(500, "boom"), DataResp(504, GatewayTimeoutText),
   DataResp(0, TimeoutText)}

(* getDevices(): params {pageSize: 50, after: 0}, df left out *)
legacyGetDevices ==
  Req("GET", "/v2/devices",
      <<Param("pageSize", "50"), Param("after", "0")>>)

(* `Failed to refresh access token: ${error.message}` *)
LegacyRefreshError(tried, status, text) ==
  Res("auth", NoToken, tried, status, text, NoValue)
(* `Failed to auto-detect NinjaONE region. Tried: ...` *)
LegacyDetectError(tried) == Res("discovery", NoToken, tried, 0, "", NoValue)
(* `API call failed: ${status} ${statusText} - ${errorText}` *)
LegacyApiError(status, text) == Res("api", NoToken, <<>>, status, text, NoValue)
LegacyFetchError(text) == Res("network", NoToken, <<>>, 0, text, NoValue)

(* `await this.getAccessToken()` at the top of an attempt, up to its first *)
(* await: the cache test, then the exchange against the base URL or the    *)
(* first candidate.                                                        *)
LegacyEnter(call, n, tok, exp) ==
  IF TokenValid(tok, exp, now)
  THEN [call EXCEPT !.pc = "haveToken", !.attempt = n, !.auto = FALSE,
                    !.tried = <<>>, !.xid = 0, !.token = tok,
                    !.target = NoTarget]
  ELSE [call EXCEPT !.pc = "tokenWait", !.attempt = n,
                    !.auto = (baseUrl = NoUrl),
                    !.tried = <<IF baseUrl = NoUrl THEN candidateUrls[1]
                                ELSE baseUrl>>,
                    !.xid = exchanges + 1, !.token = NoToken,
                    !.target = NoTarget]

(* The exchange count after a call record was entered *)
LegacyCounted(entered) ==
  /\ entered.pc = "tokenWait" => exchanges < MaxLegacyExchanges
  /\ exchanges' = IF entered.pc = "tokenWait" THEN exchanges + 1 ELSE exchanges

(* The catch block of apiCall for an error thrown in attempt call.attempt: *)
(* a delay and another attempt, or the end of the call with that error.    *)
LegacyCatch(c, call, resp, err, text) ==
  IF call.attempt < maxRetries /\ includesTimeoutOrNetwork(text)
  THEN /\ calls' = [calls EXCEPT ![c] =
            [call EXCEPT !.pc = "delay", !.lastError = err]]
       /\ lastDone' = NoDone
  ELSE /\ calls' = LegacyRemove(calls, c)
       /\ lastDone' = Done(call, resp, err)

LegacyBegin(c, req) ==
  LET entered == LegacyEnter([LegacyIdle EXCEPT !.req = req], 1,
                             accessToken, tokenExpiry)
  IN /\ calls[c].pc = "idle"
     /\ \A d \in Slots : d < c => calls[d].pc # "idle"
     /\ LegacyCounted(entered)
     /\ calls' = [calls EXCEPT ![c] = entered]
     /\ lastDone' = NoDone
     /\ UNCHANGED <<impl, env, isConfigured, baseUrl, baseUrlExplicit,
                    accessToken, tokenExpiry, now, ticks, overrides,
                    lastOverride>>

(* The fetch of refreshAccessToken settles *)
LegacyTokenResponse(c, r) ==
  LET call == calls[c]
      cur == Last(call.tried)
      tok == Tok(cur, call.xid)
  IN /\ call.pc = "tokenWait"
     /\ IF ResponseOk(r.status)
        THEN /\ accessToken' = tok
             /\ tokenExpiry' = now + (r.payload.expires_in * 1000)
             /\ baseUrl' = IF call.auto THEN cur ELSE baseUrl
             /\ calls' = [calls EXCEPT ![c] =
                  [call EXCEPT !.pc = "haveToken", !.token = tok]]
             /\ lastDone' = NoDone
             /\ UNCHANGED exchanges
        ELSE /\ UNCHANGED <<accessToken, tokenExpiry, baseUrl>>
             /\ IF call.auto /\ Len(call.tried) < Len(candidateUrls)
                THEN /\ exchanges < MaxLegacyExchanges
                     /\ exchanges' = exchanges + 1
                     /\ calls' = [calls EXCEPT ![c] =
                          [call EXCEPT
                             !.tried = Append(call.tried,
                                         candidateUrls[Len(call.tried) + 1]),
                             !.xid = exchanges + 1]]
                     /\ lastDone' = NoDone
                ELSE IF call.auto
                THEN /\ LegacyCatch(c, call, NoResp,
                                    LegacyDetectError(call.tried), "")
                     /\ UNCHANGED exchanges
                ELSE /\ LegacyCatch(c, call, NoResp,
                                    LegacyRefreshError(call.tried, r.status,
                                                       r.text), r.text)
                     /\ UNCHANGED exchanges
     /\ UNCHANGED <<impl, env, isConfigured, baseUrlExplicit, now, ticks,
                    overrides, lastOverride>>

(* After `await this.getAccessToken()`: new URL(endpoint, this.baseUrl),   *)
(* the query parameters, the fetch.                                        *)
LegacySendData(c) ==
  LET call == calls[c]
  IN /\ call.pc = "haveToken"
     /\ calls' = [calls EXCEPT ![c] =
          [call EXCEPT !.pc = "dataWait",
                       !.target = Target(baseUrl, call.req.endpoint,
                                         call.req.query)]]
     /\ lastDone' = NoDone
     /\ UNCHANGED <<impl, env, isConfigured, baseUrl, baseUrlExplicit,
                    accessToken, tokenExpiry, now, ticks, exchanges,
                    overrides, lastOverride>>

(* The data fetch settles: the data, a 401 that clears the cache and runs  *)
(* the next attempt at once, or an error for the catch block.              *)
LegacyDataResponse(c, r) ==
  LET call == calls[c]
      again == LegacyEnter(call, call.attempt + 1, NoToken, 0)
  IN /\ call.pc = "dataWait"
     /\ IF r.status = 0
        THEN /\ LegacyCatch(c, call, r, LegacyFetchError(r.body), r.body)
             /\ UNCHANGED <<accessToken, tokenExpiry, exchanges>>
        ELSE IF ResponseOk(r.status)
        THEN /\ calls' = LegacyRemove(calls, c)
             /\ lastDone' =
                  Done(call, r,
                       IF JSONparse(r.body).ok
                       THEN Res("ok", NoToken, <<>>, r.status, "",
                                JSONparse(r.body).value)
                       ELSE Res("parse", NoToken, <<>>, r.status, r.body,
                                NoValue))
             /\ UNCHANGED <<accessToken, tokenExpiry, exchanges>>
        ELSE IF r.status = 401
        THEN /\ accessToken' = NoToken
             /\ tokenExpiry' = 0
             /\ IF call.attempt < maxRetries
                THEN /\ exchanges < MaxLegacyExchanges
                     /\ exchanges' = exchanges + 1
                     /\ calls' = [calls EXCEPT ![c] = again]
                     /\ lastDone' = NoDone
                ELSE /\ calls' = LegacyRemove(calls, c)
                     /\ lastDone' =
                          Done(call, r, LegacyApiError(r.status, r.body))
                     /\ UNCHANGED exchanges
        ELSE /\ LegacyCatch(c, call, r, LegacyApiError(r.status, r.body),
                            r.body)
             /\ UNCHANGED <<accessToken, tokenExpiry, exchanges>>
     /\ UNCHANGED <<impl, env, isConfigured, baseUrl, baseUrlExplicit, now,
                    ticks, overrides, lastOverride>>

(* The delay of the catch block is over: the next attempt begins *)
LegacyDelayDone(c) ==
  LET call == calls[c]
      entered == LegacyEnter(call, call.attempt + 1, accessToken, tokenExpiry)
  IN /\ call.pc = "delay"
     /\ LegacyCounted(entered)
     /\ calls' = [calls EXCEPT ![c] = entered]
     /\ lastDone' = NoDone
     /\ UNCHANGED <<impl, env, isConfigured, baseUrl, baseUrlExplicit,
                    accessToken, tokenExpiry, now, ticks, overrides,
                    lastOverride>>

NextLegacy ==
  \/ \E c \in Slots : LegacyBegin(c, legacyGetDevices)
  \/ \E c \in Slots : \E r \in LegacyTokenResponses : LegacyTokenResponse(c, r)
  \/ \E c \in Slots : LegacySendData(c)
  \/ \E c \in Slots : \E r \in LegacyDataResponses : LegacyDataResponse(c, r)
  \/ \E c \in Slots : LegacyDelayDone(c)
  \/ \E d \in TickMs : Tick(d)

SpecLegacy == InitLegacy /\ [][NextLegacy]_vars

(* ---------------------------------------------------------------------- *)
(* Patch operations                                                        *)
(* ---------------------------------------------------------------------- *)

(* The body handed to makeRequest: nothing, an object {patches}, or a text *)
Body(k, p, t) == [kind |-> k, patches |-> p, text |-> t]
NoBody == Body("none", <<>>, "")

RECURSIVE JoinQuoted(_)
JoinQuoted(p) ==
  IF p = <<>> THEN ""
  ELSE IF Len(p) = 1 THEN "\"" \o p[1] \o "\""
  ELSE "\"" \o p[1] \o "\"," \o JoinQuoted(Tail(p))

(* JSON.stringify({ patches }) *)
JSONstringify(p) == "{\"patches\":[" \o JoinQuoted(p) \o "]}"

PatchReq(m, e, b) == [method |-> m, endpoint |-> e, query |-> <<>>, body |-> b]

DeviceIds == {7, 42}
PatchLists == {<<>>, <<"KB12345">>, <<"KB1", "KB2">>}

scanDeviceOSPatches(i, id) ==
  IF i = "server"
  THEN PatchReq("POST", "/v2/device/" \o ToString(id) \o "/os-patches/scan",
                NoBody)
  ELSE PatchReq("POST", "/v2/device/" \o ToString(id) \o "/patch/os/scan",
                NoBody)

applyDeviceOSPatches(i, id, patches) ==
  IF i = "server"
  THEN PatchReq("POST", "/v2/device/" \o ToString(id) \o "/os-patches",
                Body("object", patches, ""))
  ELSE IF i = "ts2"
  THEN PatchReq("POST", "/v2/device/" \o ToString(id) \o "/patch/os/apply",
                Body("text", <<>>, JSONstringify(patches)))
  ELSE PatchReq("POST", "/v2/device/" \o ToString(id) \o "/patch/os/apply",
                Body("object", patches, ""))

(* The options makeRequest hands to fetch: the method, the Content-Type    *)
(* header ("" when there is none) and the body text ("" when none).        *)
FetchOptions(m, ct, b) == [method |-> m, contentType |-> ct, body |-> b]

RequestOptions(i, req) ==
  LET json == req.method \in {"POST", "PUT", "PATCH"}
  IN IF i = "ts2"
     THEN FetchOptions(req.method, "application/json", req.body.text)
     ELSE IF i = "server"
     THEN IF json /\ req.body.kind = "object"
          THEN FetchOptions(req.method, "application/json",
                            JSONstringify(req.body.patches))
          ELSE FetchOptions(req.method, "", req.body.text)
     ELSE IF json /\ req.body.kind # "none"
          THEN FetchOptions(req.method, "application/json",
                            IF req.body.kind = "object"
                            THEN JSONstringify(req.body.patches)
                            ELSE "\"" \o req.body.text \o "\"")
          ELSE FetchOptions(req.method, "", "")

PatchRequests(i) ==
  {scanDeviceOSPatches(i, id) : id \in DeviceIds}
    \cup {applyDeviceOSPatches(i, id, p) : id \in DeviceIds, p \in PatchLists}

PatchDataResponses == {DataResp(200, DeviceJson), DataResp(500, "boom")}

NextPatch ==
  \/ \E c \in Slots : \E q \in PatchRequests(impl) : BeginOrdered(c, q)
  \/ \E c \in Slots : \E r \in GoodTokenResponses : TokenResponse(c, r)
  \/ \E c \in Slots : SendData(c)
  \/ \E c \in Slots : \E r \in PatchDataResponses : DataResponse(c, r)

SpecPatch == Init /\ [][NextPatch]_vars

(* ---------------------------------------------------------------------- *)
(* The tool dispatch of the two server entry points                        *)
(* ---------------------------------------------------------------------- *)

(* new McpError(code, message): the SDK puts the code in the message text  *)
CodeNumber(code) ==
  CASE code = "InvalidParams" -> "-32602"
    [] code = "MethodNotFound" -> "-32601"
    [] OTHER -> "-32603"

McpError(code, message) ==
  Res("mcp", NoToken, <<>>, 0,
      "MCP error " \o CodeNumber(code) \o ": " \o message, [code |-> code])

(* new Error(message), and the value a tool returns *)
PlainError(message) == Res("error", NoToken, <<>>, 0, message, NoValue)
ToolOk(v) == Res("ok", NoToken, <<>>, 0, "", v)

(* The catch block of routeToolCall (src/src/index.ts): whatever was       *)
(* thrown, an McpError included, becomes an InternalError.                 *)
routeToolCallCatch(thrown) ==
  McpError("InternalError", "API call failed: " \o thrown.body)

(* src/src/index.ts is the entry point of the classes of src/src,          *)
(* src/server/index.js that of src/server/ninja-api.js.                    *)
IndexEntry(i) == i # "server"

(* The arguments of set_region: "" and NoUrl stand for a missing argument *)
SetRegionArgs ==
  {[baseUrl |-> u, region |-> k] :
     u \in {NoUrl, Url("", "eu.ninjarmm.com")}, k \in {"", "EU", "mars"}}
ToolNames == {"set_region", "no_such_tool", "constructor"}

(* What callAPIMethod sets the base URL to, NoUrl when it sets nothing *)
SetRegionTarget(args) ==
  IF args.baseUrl # NoUrl THEN normalizeBaseUrl(args.baseUrl)
  ELSE IF args.region # "" /\ RegionLookup(toLowerCase(args.region)) # NoUrl
  THEN normalizeBaseUrl(RegionLookup(toLowerCase(args.region)))
  ELSE NoUrl

(* What callAPIMethod throws when the tool sets nothing *)
callAPIMethodThrown(name, args) ==
  IF name # "set_region"
  THEN McpError("MethodNotFound", "Unknown tool: " \o name)
  ELSE IF args.region # ""
  THEN PlainError("Unknown region: " \o args.region)
  ELSE McpError("InvalidParams", "Provide either region or baseUrl")

(* The handler of src/server/index.js for a name that is no own key of    *)
(* toolDefinitions: an inherited key passes `if (!toolDef)` and fails at  *)
(* toolDef.handler.bind.                                                   *)
ServerHandlerThrown(name) ==
  IF name = "constructor"
  THEN McpError("InternalError",
                "Tool execution failed: Cannot read properties of undefined (reading 'bind')")
  ELSE McpError("MethodNotFound", "Unknown tool: " \o name)

(* One CallToolRequest for a tool that awaits nothing *)
ToolCall(name, args) ==
  LET call == [IdleCall EXCEPT !.req = Req("TOOL", name, <<>>)]
      target == SetRegionTarget(args)
      applies == IndexEntry(impl) /\ name = "set_region" /\ target # NoUrl
      result ==
        IF ~IndexEntry(impl) THEN ServerHandlerThrown(name)
        ELSE IF applies THEN ToolOk([ok |-> TRUE, baseUrl |-> target])
        ELSE routeToolCallCatch(callAPIMethodThrown(name, args))
  IN /\ overrides < MaxOverrides
     /\ overrides' = overrides + 1
     /\ IF applies
        THEN /\ baseUrl' = target
             /\ baseUrlExplicit' = TRUE
             /\ accessToken' = NoToken
             /\ tokenExpiry' = 0
             /\ lastOverride' =
                  [ok |-> TRUE, arg |-> "",
                   cached |-> TokenValid(accessToken, tokenExpiry, now)]
        ELSE /\ UNCHANGED <<baseUrl, baseUrlExplicit, accessToken,
                            tokenExpiry>>
             /\ lastOverride' =
                  IF IndexEntry(impl) /\ name = "set_region"
                  THEN [ok |-> FALSE, arg |-> args.region, cached |-> FALSE]
                  ELSE lastOverride
     /\ lastDone' = Done(call, NoResp, result)
     /\ UNCHANGED <<impl, env, isConfigured, now, ticks, calls, exchanges>>

NextTools ==
  \/ \E name \in ToolNames : \E args \in SetRegionArgs : ToolCall(name, args)
  \/ \E c \in Slots : BeginOrdered(c, getDevices(impl))
  \/ \E c \in Slots : \E r \in GoodTokenResponses : TokenResponse(c, r)
  \/ \E c \in Slots : SendData(c)
  \/ \E c \in Slots : \E r \in DataResponses : DataResponse(c, r)
  \/ \E d \in TickMs : Tick(d)

SpecTools == Init /\ [][NextTools]_vars

(* ---------------------------------------------------------------------- *)
(* Properties                                                              *)
(* ---------------------------------------------------------------------- *)

(* The step in which the call of slot c begins, and a step that ends no    *)
(* call (so that every call in flight keeps its slot).                     *)
Began(c) == calls[c].pc = "idle" /\ calls'[c].pc # "idle"
NoneEnded == lastDone'.pc = "none"

(* getAccessToken of the call in slot c returns in this step after an      *)
(* exchange.                                                               *)
ExchangeReturns(c) ==
  calls[c].pc = "tokenWait" /\ calls'[c].pc = "haveToken" /\ NoneEnded

IsPrefix(s, t) == Len(s) <= Len(t) /\ \A i \in 1..Len(s) : s[i] = t[i]

(* The cache holds a token T with expiry E and now < E - 300000 *)
InWindow == accessToken # NoToken /\ tokenExpiry # 0 /\ now < tokenExpiry - 300000

ServedFromCache(c) ==
  /\ calls'[c].pc = "haveToken"
  /\ calls'[c].tried = <<>>
  /\ calls'[c].token = accessToken
  /\ exchanges' = exchanges

(* C1 as amended: a call made while the cache holds T and now < E - 300000 *)
(* issues no token exchange and returns T; through that window the cache   *)
(* keeps T and E unless setBaseUrl/setRegion intervenes or a token         *)
(* exchange that was already in flight completes and overwrites them.      *)
C1_TokenReuse ==
  [][InWindow =>
       /\ \A c \in Slots : Began(c) => ServedFromCache(c)
       /\ (overrides' = overrides /\ ~(\E c \in Slots : ExchangeReturns(c)))
            => (accessToken' = accessToken /\ tokenExpiry' = tokenExpiry)]_vars

(* Two calls served by the cache, both holding the cached token *)
C1_Witness ==
  /\ InWindow
  /\ \A c \in Slots :
       /\ calls[c].pc = "haveToken"
       /\ calls[c].tried = <<>>
       /\ calls[c].token = accessToken

(* C1 as stated: after an exchange cached T with expiry E, every call made *)
(* while now < E - 300000 with no setBaseUrl/setRegion in between issues   *)
(* no network call and returns T, so T stays the cached token throughout   *)
(* the window and any two such calls return the identical value.           *)
C1_Original ==
  [][InWindow =>
       /\ \A c \in Slots : Began(c) => ServedFromCache(c)
       /\ (overrides' = overrides /\ now' < tokenExpiry - 300000)
            => accessToken' = accessToken]_vars

(* C2: a call made while a token is cached and now >= expiresAt - 300000,  *)
(* the exact boundary included, issues a new token exchange, and what it   *)
(* returns is the token of that exchange, never the old cached one.        *)
C2_ExpiryRefresh ==
  [][\A c \in Slots :
       /\ (Began(c) /\ accessToken # NoToken /\ now >= tokenExpiry - 300000)
            => /\ calls'[c].pc = "tokenWait"
               /\ exchanges' = exchanges + 1
               /\ calls'[c].xid = exchanges'
       /\ ExchangeReturns(c)
            => /\ calls'[c].token.id = calls[c].xid
               /\ calls'[c].token = accessToken'
               /\ accessToken # NoToken => calls'[c].token # accessToken]_vars

(* A refresh under way at the exact boundary, some time after the issue *)
C2_Witness ==
  \E c \in Slots :
    /\ calls[c].pc = "tokenWait"
    /\ calls[c].tried = <<baseUrl>>
    /\ accessToken # NoToken
    /\ now > 0
    /\ now = tokenExpiry - 300000

(* C3: an auto-detection pass asks the candidates one at a time in list    *)
(* order; the candidate that accepts ends the pass, becomes the resolved   *)
(* endpoint with explicit = true, and no candidate after it is asked; a    *)
(* call made once the endpoint is resolved and explicit exchanges, if at   *)
(* all, against the resolved endpoint only (no re-probe, also on refresh). *)
C3_DetectionOrder ==
  [][\A c \in Slots :
       /\ (calls'[c].pc = "tokenWait" /\ calls'[c].auto)
            => /\ Len(calls'[c].tried) >= 1
               /\ IsPrefix(calls'[c].tried, getCandidateBaseUrls(env.urls))
       /\ (calls[c].pc = "tokenWait" /\ calls'[c].pc = "tokenWait"
             /\ NoneEnded /\ calls'[c] # calls[c])
            => /\ Len(calls'[c].tried) = Len(calls[c].tried) + 1
               /\ exchanges' = exchanges + 1
       /\ (ExchangeReturns(c) /\ calls[c].auto)
            => /\ baseUrl' = Last(calls[c].tried)
               /\ baseUrlExplicit'
               /\ exchanges' = exchanges
               /\ calls'[c].tried = calls[c].tried
       /\ (Began(c) /\ baseUrl # NoUrl /\ baseUrlExplicit
             /\ calls'[c].pc = "tokenWait")
            => /\ calls'[c].tried = <<baseUrl>>
               /\ ~calls'[c].auto]_vars

(* Candidates [x, y, z]: x refused, y accepted and locked in, and after    *)
(* expiry the refresh goes to y alone: three exchanges, none with z.       *)
C3_Witness ==
  /\ env = EnvAutoXYZ
  /\ baseUrl = YT
  /\ baseUrlExplicit
  /\ accessToken = Tok(YT, 2)
  /\ now > 0
  /\ exchanges = 3
  /\ \E c \in Slots :
       /\ calls[c].pc = "tokenWait"
       /\ ~calls[c].auto
       /\ calls[c].tried = <<YT>>
       /\ calls[c].xid = 3

(* C4: a client constructed with region key eu and no base URL sends the   *)
(* token exchange of its first device list request to                      *)
(* https://eu.ninjarmm.com and to no other regional URL, and the data      *)
(* request to https://eu.ninjarmm.com/v2/devices?pageSize=50.              *)
C4_RegionHonoured ==
  (env.base = NoUrl /\ toLowerCase(env.region) = "eu" /\ overrides = 0)
    => \A c \in Slots :
         /\ calls[c].pc = "tokenWait" => calls[c].tried = <<EU>>
         /\ (calls[c].pc = "dataWait" /\ calls[c].req.endpoint = "/v2/devices")
              => calls[c].target =
                   Target(EU, "/v2/devices", <<Param("pageSize", "50")>>)

(* The endpoint an override of this model selects *)
OverrideTarget == EU

(* C5: setBaseUrl(U) or setRegion mapping to U, called while a valid token *)
(* is cached, clears the cached token and expiry at once, and from then on *)
(* a call is served a cached token only if a fresh exchange against U has  *)
(* issued it, and a call that exchanges does so against U alone.           *)
C5_OverrideInvalidates ==
  [][/\ (overrides' # overrides /\ lastOverride'.ok /\ InWindow)
          => /\ accessToken' = NoToken
             /\ tokenExpiry' = 0
             /\ baseUrl' = OverrideTarget
             /\ baseUrlExplicit'
             /\ lastOverride'.cached
     /\ (overrides > 0 /\ lastOverride.ok /\ lastOverride.cached)
          => \A c \in Slots :
               Began(c) =>
                 /\ calls'[c].pc = "haveToken"
                      => calls'[c].token.iss = OverrideTarget
                 /\ calls'[c].pc = "tokenWait"
                      => calls'[c].tried = <<OverrideTarget>>]_vars

(* C6: a pass that every candidate refuses has asked each candidate once,  *)
(* in list order, and fails with the one discovery error that lists all    *)
(* candidates in their order; no refusal of a single candidate surfaces.   *)
C6_DiscoveryExhaustion ==
  /\ \A c \in Slots :
       (calls[c].pc = "tokenWait" /\ calls[c].auto)
         => IsPrefix(calls[c].tried, getCandidateBaseUrls(env.urls))
  /\ (lastDone.pc = "done" /\ lastDone.auto)
       => /\ lastDone.tried = getCandidateBaseUrls(env.urls)
          /\ lastDone.result.kind = "discovery"
          /\ lastDone.result.tried = getCandidateBaseUrls(env.urls)
          /\ lastDone.result.status = 0
          /\ lastDone.target = NoTarget
  /\ lastDone.result.kind = "discovery" => lastDone.auto

(* The list [x, y, z] exhausted *)
C6_Witness ==
  /\ lastDone.pc = "done"
  /\ lastDone.result.kind = "discovery"
  /\ lastDone.result.tried = <<XT, YT, ZT>>

(* C7: a client built without client id or without client secret never    *)
(* issues a network call, and every call it is asked to make fails with    *)
(* the configuration error, whatever overrides have been applied.          *)
C7_Unconfigured ==
  (env.clientId = "" \/ env.clientSecret = "")
    => /\ exchanges = 0
       /\ accessToken = NoToken
       /\ \A c \in Slots : calls[c].pc = "idle"
       /\ lastDone.pc = "done"
            => (lastDone.result.kind = "config" /\ lastDone.target = NoTarget)

(* A call failing with the configuration error after an override *)
C7_Witness ==
  /\ env.clientSecret = ""
  /\ overrides > 0
  /\ lastOverride.ok
  /\ lastDone.pc = "done"
  /\ lastDone.result.kind = "config"

(* C8: candidates [x, y], y alone accepting with expires_in 3600: while    *)
(* the token of the first request's pass is cached and valid, there have   *)
(* been exactly 2 exchanges (x, then y), and every further request carries *)
(* the cached token and goes to y.                                         *)
C8_DetectOnce ==
  (env = EnvAutoXY /\ accessToken = Tok(YT, 2) /\ now < tokenExpiry - 300000)
    => /\ exchanges = 2
       /\ baseUrl = YT
       /\ \A c \in Slots :
            calls[c].pc # "idle"
              => /\ calls[c].tried \in {<<>>, <<XT, YT>>}
                 /\ calls[c].token = Tok(YT, 2)
                 /\ calls[c].target.base \in {NoUrl, YT}
       /\ (lastDone.pc = "done" /\ lastDone.tried = <<>>)
            => /\ lastDone.token = Tok(YT, 2)
               /\ lastDone.target.base = YT

(* Further requests served by the cache and sent to y: one has returned,   *)
(* another is in flight.                                                   *)
C8_Witness ==
  /\ env = EnvAutoXY
  /\ accessToken = Tok(YT, 2)
  /\ tokenExpiry = 3600 * 1000
  /\ exchanges = 2
  /\ lastDone.pc = "done"
  /\ lastDone.tried = <<>>
  /\ lastDone.result.kind = "ok"
  /\ lastDone.target.base = YT
  /\ calls[1].pc = "dataWait"
  /\ calls[1].tried = <<>>
  /\ calls[1].token = Tok(YT, 2)
  /\ calls[1].target.base = YT

(* C9: once the resolved endpoint has explicit = true, its base URL changes *)
(* only as the direct effect of setBaseUrl / setRegion.                    *)
C9_ExplicitKept ==
  [][(baseUrlExplicit /\ baseUrl' # baseUrl) => overrides' = overrides + 1]_vars

(* C10: of a 2xx data response, a DELETE answered 204 with an empty body   *)
(* returns {success: true}; an empty or blank body returns {success: true} *)
(* for any method; a JSON body returns the parsed structure; a body that   *)
(* is not JSON returns {success: true}; for every client implementation.   *)
C10_Normalization ==
  (lastDone.pc = "done" /\ ResponseOk(lastDone.resp.status))
    => /\ lastDone.result.kind = "ok"
       /\ (lastDone.req.method = "DELETE" /\ lastDone.resp.status = 204)
            => lastDone.result.value = [success |-> TRUE]
       /\ lastDone.resp.body \in {"", "  "}
            => lastDone.result.value = [success |-> TRUE]
       /\ lastDone.resp.body = "{\"id\":7}"
            => lastDone.result.value = [id |-> 7]
       /\ lastDone.resp.body = "OK"
            => lastDone.result.value = [success |-> TRUE]

(* The call in slot c returns from a successful exchange and leaves the     *)
(* client at endpoint b, explicit, with that exchange's token and expiry.  *)
LocksIn(c, b) ==
  /\ baseUrl' = b
  /\ baseUrlExplicit'
  /\ accessToken' = Tok(b, calls[c].xid)
  /\ tokenExpiry' \in {now + (e * 1000) : e \in ExpiresIn}
  /\ calls'[c].token = accessToken'

(* C11: auto-detecting candidate B leaves baseUrl = B, explicit = true and *)
(* the token and expiry of B's exchange; a client constructed with the     *)
(* explicit base URL B is in that same state after a successful exchange;  *)
(* and from that state on what a call does is decided by the four fields   *)
(* and the clock alone (served from the cache, or one exchange against     *)
(* baseUrl), not by the candidate list or the way the state was reached.   *)
C11_DetectEqualsExplicit ==
  [][\A c \in Slots :
       /\ (ExchangeReturns(c) /\ calls[c].auto)
            => LocksIn(c, Last(calls[c].tried))
       /\ (ExchangeReturns(c) /\ env.base # NoUrl /\ overrides = 0)
            => LocksIn(c, normalizeBaseUrl(env.base))
       /\ (Began(c) /\ baseUrlExplicit /\ baseUrl # NoUrl)
            => IF InWindow
               THEN ServedFromCache(c)
               ELSE /\ calls'[c].pc = "tokenWait"
                    /\ calls'[c].tried = <<baseUrl>>
                    /\ ~calls'[c].auto
                    /\ exchanges' = exchanges + 1]_vars

(* C12: with the endpoint explicit and no valid token, a call issues one   *)
(* token exchange, against the resolved base URL; while it waits it starts *)
(* no further attempt; if the exchange fails the call ends with that       *)
(* failure (its status, the one URL asked), no data request is sent, and   *)
(* the endpoint and the cache are as they were.                            *)
C12_ExplicitSingleAttempt ==
  [][/\ \A c \in Slots :
          /\ (Began(c) /\ baseUrlExplicit /\ baseUrl # NoUrl /\ ~InWindow)
               => /\ calls'[c].pc = "tokenWait"
                  /\ calls'[c].tried = <<baseUrl>>
                  /\ ~calls'[c].auto
                  /\ exchanges' = exchanges + 1
          /\ (calls[c].pc = "tokenWait" /\ ~calls[c].auto /\ NoneEnded)
               => /\ calls'[c].tried = calls[c].tried
                  /\ calls'[c].pc \in {"tokenWait", "haveToken"}
                  /\ calls'[c].xid \in {calls[c].xid, 0}
     /\ (lastDone'.pc = "done" /\ lastDone'.result.kind = "auth")
          => /\ Len(lastDone'.tried) = 1
             /\ lastDone'.result.tried = lastDone'.tried
             /\ ~(lastDone'.result.status \in 200..299)
             /\ lastDone'.target = NoTarget
             /\ lastDone'.resp.status = 0
             /\ exchanges' = exchanges
             /\ UNCHANGED <<baseUrl, baseUrlExplicit, accessToken, tokenExpiry>>
     /\ (lastDone'.pc = "done" /\ ~lastDone'.auto /\ isConfigured
           /\ lastDone'.target = NoTarget)
          => lastDone'.result.kind = "auth"]_vars

(* A refresh against the explicit endpoint refused with 401: the call has  *)
(* failed and the stale token is still in the cache.                       *)
C12_Witness ==
  /\ lastDone.pc = "done"
  /\ lastDone.result.kind = "auth"
  /\ lastDone.result.status = 401
  /\ lastDone.tried = <<baseUrl>>
  /\ baseUrlExplicit
  /\ accessToken # NoToken
  /\ now >= tokenExpiry - 300000

(* C13: with the endpoint explicit and no valid token, a call that begins  *)
(* while another is waiting for its exchange performs an exchange of its   *)
(* own; each exchange that succeeds hands its own token to its caller and  *)
(* writes that token together with its expiry into the cache, so the cache *)
(* holds the pair of the exchange that completed last.                     *)
C13_KnownRace ==
  [][\A c \in Slots :
       /\ (Began(c) /\ baseUrlExplicit /\ baseUrl # NoUrl /\ ~InWindow
             /\ \E d \in Slots \ {c} : calls[d].pc = "tokenWait")
            => /\ calls'[c].pc = "tokenWait"
               /\ exchanges' = exchanges + 1
               /\ calls'[c].xid = exchanges'
               /\ \A d \in Slots \ {c} : calls'[d].xid # calls'[c].xid
       /\ (ExchangeReturns(c) /\ ~calls[c].auto)
            => /\ calls'[c].token = Tok(Last(calls[c].tried), calls[c].xid)
               /\ calls'[c].token # NoToken
               /\ accessToken' = calls'[c].token
               /\ tokenExpiry' \in {now + (e * 1000) : e \in ExpiresIn}]_vars

(* Both callers hold a token of their own, and the cache holds the token   *)
(* of the exchange that was started first and completed last.              *)
C13_Witness ==
  /\ impl # "server"
  /\ env.base # NoUrl
  /\ overrides = 0
  /\ \A c \in Slots :
       /\ calls[c].pc = "haveToken"
       /\ calls[c].tried = <<baseUrl>>
       /\ calls[c].token # NoToken
  /\ calls[1].token.id = 1
  /\ calls[2].token.id = 2
  /\ accessToken = calls[1].token

(* The candidate list each environment of the model stands for *)
ExpectedCandidates ==
  IF env.urls = UrlsXY THEN <<XT, YT>>
  ELSE IF env.urls = UrlsXYZ THEN <<XT, YT, ZT>>
  ELSE <<Url("https", "app.ninjarmm.com"), Url("https", "us2.ninjarmm.com"),
         Url("https", "eu.ninjarmm.com"), Url("https", "ca.ninjarmm.com"),
         Url("https", "oc.ninjarmm.com")>>

(* C14: a pass has one exchange attempt in flight at a time; the attempt   *)
(* against the next candidate is started by the step in which the attempt  *)
(* against the previous one has failed (nothing was cached), and the       *)
(* attempts follow the order of the candidate list.                        *)
C14_SequentialProbing ==
  [][\A c \in Slots :
       /\ calls'[c].pc = "tokenWait"
            => /\ calls'[c].xid >= 1
               /\ calls'[c].xid <= exchanges'
               /\ Len(calls'[c].tried) >= 1
               /\ calls'[c].auto => IsPrefix(calls'[c].tried, ExpectedCandidates)
               /\ \A d \in Slots \ {c} :
                    calls'[d].pc = "tokenWait" => calls'[d].xid # calls'[c].xid
       /\ (calls[c].pc = "tokenWait" /\ calls'[c].pc = "tokenWait"
             /\ NoneEnded /\ calls'[c].tried # calls[c].tried)
            => /\ calls[c].auto
               /\ Len(calls[c].tried) < Len(ExpectedCandidates)
               /\ calls'[c].tried =
                    Append(calls[c].tried,
                           ExpectedCandidates[Len(calls[c].tried) + 1])
               /\ exchanges' = exchanges + 1
               /\ calls'[c].xid = exchanges'
               /\ calls'[c].xid > calls[c].xid
               /\ UNCHANGED <<baseUrl, baseUrlExplicit, accessToken,
                              tokenExpiry>>]_vars

(* A pass at its third candidate after two refusals *)
C14_Witness ==
  \E c \in Slots :
    /\ calls[c].pc = "tokenWait"
    /\ calls[c].auto
    /\ calls[c].tried = <<XT, YT, ZT>>
    /\ calls[c].xid = 3
    /\ exchanges = 3
    /\ accessToken = NoToken


(* ---- C16 ---- *)
(* C16: a data request answered with a status outside 200..299 fails with  *)
(* an error that carries the status code and the raw response body text.   *)
C16_DataFailure ==
  (lastDone.pc = "done" /\ lastDone.resp # NoResp
     /\ ~(lastDone.resp.status >= 200 /\ lastDone.resp.status <= 299))
    => /\ lastDone.result.kind = "api"
       /\ lastDone.result.status = lastDone.resp.status
       /\ lastDone.result.body = lastDone.resp.body

(* ---- C17 ---- *)
(* C17: a step in which a data request of an explicitly configured client  *)
(* is refused leaves the base URL, the flag and the token cache as they    *)
(* were, runs no token exchange and no detection pass, and only ends that  *)
(* one call with the error.                                                *)
C17_NoRetryNoFallback ==
  [][(/\ lastDone'.pc = "done"
      /\ lastDone'.resp # NoResp
      /\ ~(lastDone'.resp.status >= 200 /\ lastDone'.resp.status <= 299)
      /\ baseUrlExplicit)
       => /\ UNCHANGED <<baseUrl, baseUrlExplicit, accessToken, tokenExpiry,
                         exchanges, now>>
          /\ lastDone'.result.kind = "api"
          /\ lastDone'.result.status = lastDone'.resp.status
          /\ \E c \in Slots :
               /\ calls[c].pc = "dataWait"
               /\ calls[c].req = lastDone'.req
               /\ \A d \in Slots :
                    calls'[d] = IF d < c THEN calls[d]
                                ELSE IF d + 1 \in Slots THEN calls[d + 1]
                                ELSE IdleCall]_vars

C17_Witness ==
  /\ lastDone.pc = "done"
  /\ lastDone.resp # NoResp
  /\ lastDone.resp.status = 500
  /\ lastDone.result.kind = "api"
  /\ baseUrlExplicit
  /\ accessToken # NoToken
  /\ now < tokenExpiry - 300000
  /\ calls[1].pc = "dataWait"

(* ---- C18 ---- *)
(* C18: setRegion with a key of the region directory, in any letter case,  *)
(* sets the base URL to the directory entry, marks it explicit and empties *)
(* the token cache; with any other key, the empty one included, it fails   *)
(* naming the key and leaves the base URL, the flag and the token cache    *)
(* as they were.                                                           *)
C18_SetRegionKeys ==
  [][\A k \in OverrideRegionsSeq :
       SetRegion(k) =>
         IF k \in {"eu", "EU", "Eu", "eU"}
         THEN /\ baseUrl' = Url("https", "eu.ninjarmm.com")
              /\ baseUrlExplicit'
              /\ accessToken' = NoToken /\ tokenExpiry' = 0
              /\ lastOverride'.ok
         ELSE IF k \in {"ca", "CA", "Ca", "cA"}
         THEN /\ baseUrl' = Url("https", "ca.ninjarmm.com")
              /\ baseUrlExplicit'
              /\ accessToken' = NoToken /\ tokenExpiry' = 0
              /\ lastOverride'.ok
         ELSE /\ ~lastOverride'.ok
              /\ lastOverride'.arg = k
              /\ UNCHANGED <<baseUrl, baseUrlExplicit, accessToken,
                             tokenExpiry, calls, exchanges>>]_vars

(* ---- C19 ---- *)
(* C19: until a token exchange or an override has happened, the client is  *)
(* as the constructor left it: a configured base URL wins and is explicit  *)
(* (https:// put in front when it has no scheme); else a recognized region *)
(* gives its directory URL, explicit; else no base URL and not explicit.   *)
C19_ConstructionPrecedence ==
  (exchanges = 0 /\ overrides = 0) =>
    IF env.base # NoUrl
    THEN /\ baseUrl = (IF env.base.scheme \in {"http", "https"} THEN env.base
                       ELSE Url("https", env.base.host))
         /\ baseUrlExplicit
    ELSE IF env.region \in {"eu", "EU"}
    THEN baseUrl = Url("https", "eu.ninjarmm.com") /\ baseUrlExplicit
    ELSE baseUrl = NoUrl /\ ~baseUrlExplicit

(* ---- C20 ---- *)
(* C20: the candidate list is the configured list split at the commas,     *)
(* trimmed, without its empty entries and with https:// put in front of    *)
(* the entries that have no scheme; with no entry left it is the built-in  *)
(* list, whose entries are exactly the five URLs of the region directory.  *)
(* Every detection pass tries a prefix of that list.                       *)
C20_CandidateList ==
  /\ getCandidateBaseUrls(env.urls) = ExpectedCandidates
  /\ Len(DEFAULT_CANDIDATES) = 5
  /\ {DEFAULT_CANDIDATES[i] : i \in 1..5}
       = {Url("https", h) : h \in {"app.ninjarmm.com", "us2.ninjarmm.com",
                                   "eu.ninjarmm.com", "ca.ninjarmm.com",
                                   "oc.ninjarmm.com"}}
  /\ {REGION_MAP[k] : k \in DOMAIN REGION_MAP}
       = {DEFAULT_CANDIDATES[i] : i \in 1..5}
  /\ \A c \in Slots :
       (calls[c].pc = "tokenWait" /\ calls[c].auto)
         => IsPrefix(calls[c].tried, ExpectedCandidates)

C20_Witness ==
  /\ env.urls = <<Seg(TRUE, "", "")>>
  /\ calls[1].pc = "tokenWait"
  /\ calls[1].auto
  /\ calls[1].tried = <<Url("https", "app.ninjarmm.com"),
                        Url("https", "us2.ninjarmm.com")>>


(* ---- C15 ---- *)
(* C15: when the token exchange of a call fails, the call ends in that very *)
(* step with the error of getAccessToken: a step of a call waiting for its *)
(* token that ends no call is the return of the token or, inside a         *)
(* detection pass, the attempt against the next candidate; and a call that *)
(* ended with a token error has issued no data request and hands back the  *)
(* error of the exchange it was waiting for.                               *)
C15_TokenFailurePropagates ==
  [][/\ \A c \in Slots :
          (calls[c].pc = "tokenWait" /\ NoneEnded /\ calls'[c] # calls[c])
            => \/ /\ calls'[c].pc = "haveToken"
                  /\ calls'[c].token = accessToken'
               \/ /\ calls[c].auto
                  /\ calls'[c].pc = "tokenWait"
                  /\ Len(calls'[c].tried) = Len(calls[c].tried) + 1
                  /\ IsPrefix(calls[c].tried, calls'[c].tried)
     /\ (lastDone'.pc = "done"
           /\ lastDone'.result.kind \in {"config", "auth", "discovery"})
          => /\ lastDone'.target = NoTarget
             /\ lastDone'.resp = NoResp
             /\ lastDone'.result.kind # "config"
                  => \E c \in Slots :
                       /\ calls[c].pc = "tokenWait"
                       /\ lastDone'.req = calls[c].req
                       /\ lastDone'.result.tried = calls[c].tried]_vars


(* ---- C21 ---- *)
(* C21: on the server client every scanDeviceOSPatches(id) is sent to      *)
(* {baseUrl}/v2/device/{id}/patch/os/scan and every                        *)
(* applyDeviceOSPatches(id, patches) is a POST to                          *)
(* {baseUrl}/v2/device/{id}/patch/os/apply with the JSON text of {patches} *)
(* as its body and Content-Type: application/json.                         *)
C21_PatchOperations ==
  \A c \in Slots :
    (impl = "server" /\ calls[c].pc = "dataWait") =>
      \E id \in DeviceIds :
        LET sent == RequestOptions(impl, calls[c].req)
        IN \/ /\ calls[c].req = scanDeviceOSPatches(impl, id)
              /\ calls[c].target.base = baseUrl
              /\ calls[c].target.endpoint
                   = "/v2/device/" \o ToString(id) \o "/patch/os/scan"
           \/ \E p \in PatchLists :
                /\ calls[c].req = applyDeviceOSPatches(impl, id, p)
                /\ calls[c].target.base = baseUrl
                /\ calls[c].target.endpoint
                     = "/v2/device/" \o ToString(id) \o "/patch/os/apply"
                /\ sent.method = "POST"
                /\ sent.contentType = "application/json"
                /\ sent.body = JSONstringify(p)


(* ---- C22 ---- *)
(* C22: the set_region tool called with a baseUrl applies                  *)
(* setBaseUrl(baseUrl) whatever the region; called with a region only it   *)
(* applies setRegion(region); called with neither it fails with an MCP     *)
(* error of code InvalidParams and leaves the client as it was.            *)
C22_SetRegionTool ==
  [][\A args \in SetRegionArgs :
       (impl # "server" /\ ToolCall("set_region", args)) =>
         IF args.baseUrl # NoUrl
         THEN /\ baseUrl' = Url("https", args.baseUrl.host)
              /\ baseUrlExplicit'
              /\ accessToken' = NoToken /\ tokenExpiry' = 0
              /\ lastDone'.result.kind = "ok"
         ELSE IF args.region = "EU"
         THEN /\ baseUrl' = Url("https", "eu.ninjarmm.com")
              /\ baseUrlExplicit'
              /\ accessToken' = NoToken /\ tokenExpiry' = 0
              /\ lastDone'.result.kind = "ok"
         ELSE IF args.region # ""
         THEN /\ lastDone'.result.kind # "ok"
              /\ UNCHANGED <<baseUrl, baseUrlExplicit, accessToken,
                             tokenExpiry, calls, exchanges>>
         ELSE /\ lastDone'.result.kind = "mcp"
              /\ lastDone'.result.value.code = "InvalidParams"
              /\ UNCHANGED <<baseUrl, baseUrlExplicit, accessToken,
                             tokenExpiry, calls, exchanges>>]_vars

(* ---- C30 ---- *)
(* C30: a tool call whose name is not in the dispatch table of its entry   *)
(* point fails with an MCP error of code MethodNotFound, and runs no       *)
(* client method and no network call: the client and its calls stay as     *)
(* they were.                                                              *)
C30_UnknownTool ==
  [][\A name \in ToolNames : \A args \in SetRegionArgs :
       (ToolCall(name, args) /\ ~(impl # "server" /\ name = "set_region"))
         => /\ lastDone'.result.kind = "mcp"
            /\ lastDone'.result.value.code = "MethodNotFound"
            /\ UNCHANGED <<baseUrl, baseUrlExplicit, accessToken,
                           tokenExpiry, calls, exchanges>>]_vars


(* ---- C23 ---- *)
(* C23: after every step the cached token and its expiry are both absent   *)
(* or both present; they change only by an override, which clears both, or *)
(* by the return of a successful exchange, which replaces both with the    *)
(* token and the expiry of that one exchange.                              *)
C23_CacheWhole ==
  [][/\ (accessToken' = NoToken) <=> (tokenExpiry' = 0)
     /\ (accessToken' # accessToken \/ tokenExpiry' # tokenExpiry)
          => \/ /\ overrides' = overrides + 1
                /\ accessToken' = NoToken
                /\ tokenExpiry' = 0
             \/ \E c \in Slots :
                  /\ ExchangeReturns(c)
                  /\ accessToken' = Tok(Last(calls[c].tried), calls[c].xid)
                  /\ tokenExpiry' \in {now + (e * 1000) : e \in {300, 3600}}]_vars

(* ---- C27 ---- *)
(* C27: getAccessToken returns from an exchange, locking in the candidate  *)
(* and replacing the cache, only with a token: the token it returns and    *)
(* the token it caches are the same, present token.                        *)
C27_RealTokenOnly ==
  [][\A c \in Slots :
       ExchangeReturns(c)
         => /\ calls'[c].token # NoToken
            /\ accessToken' = calls'[c].token
            /\ tokenExpiry' # 0]_vars


(* ---- C24 ---- *)
(* C24: whenever getAccessToken has returned to a call, the base URL is    *)
(* resolved and explicit, and the step that sends the call's data request  *)
(* sends it to that resolved base URL: the fallback to the first default   *)
(* candidate is never taken.                                               *)
C24_FallbackUnreachable ==
  [][\A c \in Slots :
       /\ calls[c].pc = "haveToken" => (baseUrl # NoUrl /\ baseUrlExplicit)
       /\ (calls[c].pc = "haveToken" /\ calls'[c].pc = "dataWait" /\ NoneEnded)
            => /\ baseUrl # NoUrl
               /\ calls'[c].target.base = baseUrl]_vars

C24_Witness ==
  /\ env.base = NoUrl
  /\ env.region = ""
  /\ calls[1].pc = "dataWait"
  /\ calls[1].target.base = Url("https", "x.test")
  /\ calls[2].pc = "haveToken"
  /\ baseUrl = Url("https", "x.test")


(* ---- C25 ---- *)
(* C25: in every reachable state a cached token was issued by the resolved *)
(* base URL, and every data request in flight carries a token issued by    *)
(* the base URL it was sent to.                                            *)
C25_TokenBoundToEndpoint ==
  /\ accessToken # NoToken => accessToken.iss = baseUrl
  /\ \A c \in Slots :
       calls[c].pc = "dataWait" => calls[c].token.iss = calls[c].target.base


(* ---- C26 ---- *)
(* C26 as stated: the step in which a detection pass fails on its last     *)
(* candidate leaves the base URL, the flag and the token cache as they     *)
(* were, and the call that begins next runs a new pass from the first      *)
(* candidate.                                                              *)
C26_Original ==
  [][/\ (lastDone'.pc = "done" /\ lastDone'.result.kind = "discovery")
          => UNCHANGED <<baseUrl, baseUrlExplicit, accessToken, tokenExpiry>>
     /\ \A c \in Slots :
          (lastDone.pc = "done" /\ lastDone.result.kind = "discovery"
             /\ Began(c))
            => /\ calls'[c].pc = "tokenWait"
               /\ calls'[c].auto
               /\ calls'[c].tried = <<ExpectedCandidates[1]>>]_vars

(* C26 amended: the failing pass itself writes none of the four fields,    *)
(* and the call that begins next, while the endpoint is still unresolved   *)
(* or not explicit and no valid token is cached, runs a new pass that      *)
(* starts with one exchange against the first candidate.                   *)
C26_FailedDiscoveryFrame ==
  [][/\ (lastDone'.pc = "done" /\ lastDone'.result.kind = "discovery")
          => UNCHANGED <<baseUrl, baseUrlExplicit, accessToken, tokenExpiry>>
     /\ \A c \in Slots :
          (lastDone.pc = "done" /\ lastDone.result.kind = "discovery"
             /\ Began(c)
             /\ (baseUrl = NoUrl \/ ~baseUrlExplicit)
             /\ ~InWindow)
            => /\ calls'[c].pc = "tokenWait"
               /\ calls'[c].auto
               /\ calls'[c].tried = <<ExpectedCandidates[1]>>
               /\ exchanges' = exchanges + 1]_vars

C26_Witness ==
  /\ lastDone.pc = "done"
  /\ lastDone.result.kind = "discovery"
  /\ lastDone.result.tried = <<Url("https", "x.test"), Url("https", "y.test")>>
  /\ baseUrl = NoUrl
  /\ ~baseUrlExplicit
  /\ accessToken = NoToken
  /\ exchanges = 2


(* ---- C28 ---- *)
(* C28: an exchange that returns a token with expires_in = 300 caches it   *)
(* with expiry now + 300000, and while the cache holds a token whose       *)
(* expiry is no more than 300000 ms ahead, every call that begins performs *)
(* one new exchange, against the resolved explicit base URL alone.         *)
C28_ShortLivedNeverServed ==
  [][\A c \in Slots :
       /\ (ExchangeReturns(c) /\ accessToken' # NoToken
             /\ calls'[c].token = accessToken'
             /\ tokenExpiry' = now + (300 * 1000))
            => ~(now' < tokenExpiry' - 300000)
       /\ (Began(c) /\ accessToken # NoToken
             /\ tokenExpiry <= now + (300 * 1000))
            => /\ calls'[c].pc = "tokenWait"
               /\ ~calls'[c].auto
               /\ calls'[c].tried = <<baseUrl>>
               /\ exchanges' = exchanges + 1]_vars

C28_Witness ==
  /\ accessToken # NoToken
  /\ accessToken.id = 1
  /\ now = 0
  /\ tokenExpiry = 300000
  /\ calls[1].pc = "tokenWait"
  /\ calls[1].xid = 2
  /\ calls[1].tried = <<baseUrl>>
  /\ calls[2].pc = "idle"


(* ---- C29 ---- *)
(* C29: an apiCall of the refresh-token client makes at most 2 attempts;   *)
(* the only response to a data request after which the call goes on is a   *)
(* 401 to attempt 1, upon which the cache is cleared and attempt 2 begins  *)
(* with a new token exchange; after any other non-2xx response, and after  *)
(* a 401 to attempt 2, the call ends with the error of that response.      *)
C29_LegacyRetry ==
  [][\A c \in Slots :
       /\ calls[c].attempt <= 2
       /\ (calls[c].pc = "dataWait" /\ NoneEnded /\ calls'[c] # calls[c])
            => \/ /\ calls[c].attempt = 1
                  /\ calls'[c].attempt = 2
                  /\ calls'[c].pc = "tokenWait"
                  /\ accessToken' = NoToken
                  /\ tokenExpiry' = 0
                  /\ exchanges' = exchanges + 1
               \/ /\ calls'[c].pc = "delay"
                  /\ calls'[c].lastError.kind = "network"]_vars

====
